---- MODULE Spec2Model ----
(***************************************************************************)
(* Model of src/server.py: ReviewAnalyzerServer, a WSGI application that   *)
(* keeps a list of review dicts (self.reviews), answers GET with a         *)
(* filtered, sentiment-sorted view and appends a new review on POST.       *)
(*                                                                         *)
(* Python object identity matters here: self.reviews is one list object    *)
(* holding references to dict objects.  A list comprehension builds a new  *)
(* list holding the SAME dicts, so a dict is identified by its index in    *)
(* the store and a filtered list is a sequence of store indices.           *)
(***************************************************************************)
EXTENDS Integers, Sequences, FiniteSets, TLC

(* ------------------------------- bounds ------------------------------- *)
MaxPosts == 2        \* POST is not modelled once this many were accepted
MaxDay == 2          \* the server runs on day MaxDay; bulk rows are older
MaxTod == 1          \* time of day 0 (midnight) .. MaxTod

TicksPerDay == MaxTod + 1

(* ------------------------- values and encodings ----------------------- *)
\* Python None, as returned by params.get(key, [None])[0]
None == "<None>"
\* a key that does not occur in the query string / form body
Missing == "<missing>"

\* A date parameter's text.  fmt "Y-m-d" is text that '%Y-%m-%d' parses,
\* "junk" is text it does not parse, "blank" is the empty string.
DateText(d) == [fmt |-> "Y-m-d", day |-> d]
JunkDate == [fmt |-> "junk", day |-> 0]
BlankDate == [fmt |-> "blank", day |-> 0]
MissingDate == [fmt |-> "missing", day |-> 0]
NoneDate == [fmt |-> "None", day |-> 0]

\* A 'YYYY-MM-DD HH:MM:SS' string
TimestampText(d, t) == [day |-> d, tod |-> t]

\* an optional dict key: <<>> when the key is absent, <<v>> when it holds v
NoKey == <<>>
Key(v) == <<v>>

allowed_locations ==
    { "Albuquerque, New Mexico", "Carlsbad, California",
      "Chula Vista, California", "Colorado Springs, Colorado",
      "Denver, Colorado", "El Cajon, California", "El Paso, Texas",
      "Escondido, California", "Fresno, California", "La Mesa, California",
      "Las Vegas, Nevada", "Los Angeles, California",
      "Oceanside, California", "Phoenix, Arizona", "Sacramento, California",
      "Salt Lake City, Utah", "San Diego, California", "Tucson, Arizona" }

NegBody == "Terrible service, cold food"
PosBody == "Amazing meal, wonderful staff"

\* sia.polarity_scores(text)['compound'], in hundredths; a deterministic
\* function of the text
polarity_compound(text) ==
    CASE text = NegBody -> -48
      [] text = PosBody -> 83
      [] OTHER -> 0

analyze_sentiment(review_body) == [compound |-> polarity_compound(review_body)]

(* ------------------------------ inputs -------------------------------- *)
GetLocations == {Missing, "", "Denver, Colorado", "Atlantis"}
PostLocations == {Missing, "", "Denver, Colorado", "Atlantis"}
PostBodies == {Missing, "", NegBody, PosBody}
\* no date, unparsable text, today, and a day after every record
DateParams == {MissingDate, JunkDate, DateText(MaxDay), DateText(MaxDay + 1)}
\* datetime.now(), in ticks: midnight and the last moment of day MaxDay
Nows == {MaxDay * TicksPerDay, MaxDay * TicksPerDay + MaxTod}
OtherMethods == {"PUT", "DELETE"}

\* reviews = pd.read_csv('data/reviews.csv').to_dict('records'): rows have
\* ReviewId, Location, Timestamp, ReviewBody and no sentiment key
BulkRow(id, loc, ts, body) ==
    [ReviewId |-> id, Location |-> loc, Timestamp |-> ts, ReviewBody |-> body,
     sentiment |-> NoKey]
BulkLoads ==
    { <<>>,
      << BulkRow(1, "Denver, Colorado", TimestampText(MaxDay - 1, 1), NegBody),
         BulkRow(2, "San Diego, California", TimestampText(MaxDay - 1, 0), PosBody) >> }
MaxBulk == 2

(* ------------------------------- state -------------------------------- *)
VARIABLES
    reviews,     \* self.reviews: the list object, a sequence of review dicts
    issued,      \* number of identifiers uuid.uuid4() has handed out
    request,     \* the request being answered (raw parameters)
    response,    \* what the handler returned for it
    before,      \* history: self.reviews when the request arrived
    loaded,      \* history: the bulk-loaded list as read at start-up
    accepted,    \* history: the records returned by 201 responses, in order
    pc,          \* interleaved GET: the statement of handle_get it is at
    flt,         \* interleaved GET: its local filtered_reviews
    seen         \* history: the values self.reviews took during that GET

\* the variables only the interleaved handlers use
threads == <<pc, flt, seen>>

vars == <<reviews, issued, request, response, before, loaded, accepted, pc, flt, seen>>

(* ------------------------- library conversions ------------------------ *)
\* parse_qs drops blank values (keep_blank_values=False), so a blank value
\* and a missing key both give params.get(key, [None])[0] = None
params_get(raw) == IF raw = Missing \/ raw = "" THEN None ELSE raw
params_get_date(raw) == IF raw.fmt \in {"missing", "blank"} THEN NoneDate ELSE raw

\* datetime.strptime(text, '%Y-%m-%d') raises ValueError on other text
strptime_raises(text) == text.fmt # "Y-m-d"
\* datetime.strptime(text, '%Y-%m-%d'): midnight of that day, in ticks
strptime_date(text) == text.day * TicksPerDay
\* datetime.strptime(text, '%Y-%m-%d %H:%M:%S'), in ticks
strptime_timestamp(text) == text.day * TicksPerDay + text.tod
\* now.strftime('%Y-%m-%d %H:%M:%S')
strftime(now) == TimestampText(now \div TicksPerDay, now % TicksPerDay)

\* str(uuid.uuid4()): an identifier no earlier call returned and no
\* bulk-loaded row carries
uuid4_constant(n) == MaxBulk + 1
uuid4(n) == MaxBulk + n + 1

(* ------------------------------ handle_get ---------------------------- *)
\* the store's dicts, by index, in list order
Indices(rs) == [i \in 1..Len(rs) |-> i]

location_matches(review, location) == review.Location = location

FilterLocation(rs, idx, location) ==
    SelectSeq(idx, LAMBDA i : location_matches(rs[i], location))

keep_start(review, start_dt) == strptime_timestamp(review.Timestamp) >= start_dt

FilterStart(rs, idx, start_dt) ==
    SelectSeq(idx, LAMBDA i : keep_start(rs[i], start_dt))

keep_end_of_day(review, end_dt) ==
    strptime_timestamp(review.Timestamp) < end_dt + TicksPerDay
keep_end(review, end_dt) == strptime_timestamp(review.Timestamp) <= end_dt

FilterEnd(rs, idx, end_dt) ==
    SelectSeq(idx, LAMBDA i : keep_end(rs[i], end_dt))

Range(s) == {s[i] : i \in 1..Len(s)}

\* for review in filtered_reviews: review["sentiment"] = ...
\* writes the key on the dict objects, which the store also references
Scored(rs, idx) ==
    [i \in 1..Len(rs) |->
        IF i \in Range(idx)
        THEN [rs[i] EXCEPT !.sentiment = Key(analyze_sentiment(rs[i].ReviewBody))]
        ELSE rs[i]]

sort_key(x) == x.sentiment[1].compound

sorts_before_ascending(a, b) == sort_key(a) < sort_key(b)
\* does a sort before b when they differ (reverse=True: larger key first)
sorts_before(a, b) == sort_key(a) > sort_key(b)

InsertStable_before_ties(sorted, r) ==
    LET k == Cardinality({i \in 1..Len(sorted) : sorts_before(sorted[i], r)})
    IN SubSeq(sorted, 1, k) \o <<r>> \o SubSeq(sorted, k + 1, Len(sorted))
\* list.sort is stable, also under reverse=True: r goes after every element
\* that does not sort after it
InsertStable(sorted, r) ==
    LET k == Cardinality({i \in 1..Len(sorted) : ~sorts_before(r, sorted[i])})
    IN SubSeq(sorted, 1, k) \o <<r>> \o SubSeq(sorted, k + 1, Len(sorted))

RECURSIVE Sorted(_)
Sorted(s) ==
    IF s = <<>> THEN <<>>
    ELSE InsertStable(Sorted(SubSeq(s, 1, Len(s) - 1)), s[Len(s)])

invalid_location_never(location) == FALSE
invalid_location(location) == location \notin allowed_locations

IsStoreList_location_only(location, start_date, end_date) == location = None
\* filtered_reviews is still the list object self.reviews when no filter
\* rebinds it to a list comprehension
IsStoreList(location, start_date, end_date) ==
    location = None /\ start_date = NoneDate /\ end_date = NoneDate

StoreAfterSort_rebound(same_list, scored, result) == result
\* self.reviews after filtered_reviews.sort(...): sorted in place when
\* filtered_reviews is the store itself, otherwise only the dicts changed
StoreAfterSort(same_list, scored, result) ==
    IF same_list THEN result ELSE scored

Ok(status, body) == [status |-> status, error |-> "", body |-> body]
Error(status, msg) == [status |-> status, error |-> msg, body |-> <<>>]
\* an exception that leaves __call__ uncaught
Uncaught == [status |-> "ValueError", error |-> "uncaught exception", body |-> <<>>]

get_outcome_dates_first(location, start_date, end_date) ==
    IF \/ start_date # NoneDate /\ strptime_raises(start_date)
       \/ end_date # NoneDate /\ strptime_raises(end_date)
    THEN "raise"
    ELSE IF location # None /\ invalid_location(location) THEN "invalid location"
    ELSE "ok"
\* which way handle_get leaves: the 400 return of line 99, a ValueError
\* raised by strptime at line 103 or 107, or the 200 response
get_outcome(location, start_date, end_date) ==
    IF location # None /\ invalid_location(location) THEN "invalid location"
    ELSE IF \/ start_date # NoneDate /\ strptime_raises(start_date)
            \/ end_date # NoneDate /\ strptime_raises(end_date)
    THEN "raise"
    ELSE "ok"

handle_get(req) ==
    LET location == params_get(req.location)
        start_date == params_get_date(req.start_date)
        end_date == params_get_date(req.end_date)
        f0 == Indices(reviews)
        f1 == IF location # None THEN FilterLocation(reviews, f0, location) ELSE f0
        f2 == IF start_date # NoneDate
              THEN FilterStart(reviews, f1, strptime_date(start_date)) ELSE f1
        f3 == IF end_date # NoneDate
              THEN FilterEnd(reviews, f2, strptime_date(end_date)) ELSE f2
        scored == Scored(reviews, f3)
        result == Sorted([k \in 1..Len(f3) |-> scored[f3[k]]])
        outcome == get_outcome(location, start_date, end_date)
    IN  IF outcome = "invalid location"
        THEN /\ response' = Error("400 Bad Request", "Invalid location")
             /\ reviews' = reviews
        ELSE IF outcome = "raise"
        THEN /\ response' = Uncaught
             /\ reviews' = reviews
        ELSE /\ response' = Ok("200 OK", result)
             /\ reviews' = StoreAfterSort(IsStoreList(location, start_date, end_date),
                                          scored, result)

(* ------------------------------ handle_post --------------------------- *)
missing_field_both(location, review_body) == location = None /\ review_body = None
missing_field(location, review_body) == location = None \/ review_body = None

new_review_scores_location(id, location, now, review_body) ==
    [ReviewId |-> id, Location |-> location, Timestamp |-> strftime(now),
     ReviewBody |-> review_body, sentiment |-> Key(analyze_sentiment(location))]
new_review(id, location, now, review_body) ==
    [ReviewId |-> id, Location |-> location, Timestamp |-> strftime(now),
     ReviewBody |-> review_body, sentiment |-> Key(analyze_sentiment(review_body))]

post_error_location_first(location, review_body) ==
    IF invalid_location(location) THEN "Invalid location"
    ELSE IF missing_field(location, review_body)
    THEN "Location and ReviewBody are required"
    ELSE ""
\* the 400 message handle_post answers with, "" when the fields pass
post_error(location, review_body) ==
    IF missing_field(location, review_body)
    THEN "Location and ReviewBody are required"
    ELSE IF invalid_location(location) THEN "Invalid location"
    ELSE ""

handle_post(req) ==
    LET location == params_get(req.location)
        review_body == params_get(req.ReviewBody)
        err == post_error(location, review_body)
    IN  IF err # ""
        THEN /\ response' = Error("400 Bad Request", err)
             /\ UNCHANGED <<reviews, issued, accepted>>
        ELSE \E now \in Nows :
             LET rec == new_review(uuid4(issued), location, now, review_body)
             IN  /\ reviews' = Append(reviews, rec)
                 /\ issued' = issued + 1
                 /\ accepted' = Append(accepted, rec)
                 /\ response' = Ok("201 Created", <<rec>>)

(* ------------------------------- __call__ ----------------------------- *)
Request(method, location, start_date, end_date, review_body) ==
    [method |-> method, location |-> location, start_date |-> start_date,
     end_date |-> end_date, ReviewBody |-> review_body]

Get ==
    \E location \in GetLocations, start_date \in DateParams, end_date \in DateParams :
        LET req == Request("GET", location, start_date, end_date, Missing)
        IN  /\ request' = req
            /\ before' = reviews
            /\ handle_get(req)
            /\ UNCHANGED <<issued, loaded, accepted, threads>>

Post ==
    \E location \in PostLocations, review_body \in PostBodies :
        LET req == Request("POST", location, MissingDate, MissingDate, review_body)
        IN  /\ Len(accepted) < MaxPosts
            /\ request' = req
            /\ before' = reviews
            /\ handle_post(req)
            /\ UNCHANGED <<loaded, threads>>

dispatch_post_by_default(method) ==
    IF method = "GET" THEN "handle_get" ELSE "handle_post"
\* the branch of __call__ a request method takes
dispatch(method) ==
    IF method = "GET" THEN "handle_get"
    ELSE IF method = "POST" THEN "handle_post"
    ELSE "405"

MethodNotAllowed ==
    \E method \in OtherMethods :
        LET req == Request(method, Missing, MissingDate, MissingDate, Missing)
            branch == dispatch(method)
        IN  /\ request' = req
            /\ before' = reviews
            /\ UNCHANGED <<loaded, threads>>
            /\ IF branch = "handle_get"
               THEN handle_get(req) /\ UNCHANGED <<issued, accepted>>
               ELSE IF branch = "handle_post"
               THEN handle_post(req)
               ELSE /\ response' = Error("405 Method Not Allowed", "Method Not Allowed")
                    /\ UNCHANGED <<reviews, issued, accepted>>

Init ==
    /\ reviews \in BulkLoads
    /\ issued = 0
    /\ request = Request("none", Missing, MissingDate, MissingDate, Missing)
    /\ response = Ok("none", <<>>)
    /\ before = reviews
    /\ loaded = reviews
    /\ accepted = <<>>
    /\ pc = "idle"
    /\ flt = [same_list |-> TRUE, idx |-> <<>>]
    /\ seen = {}

Next == Get \/ Post \/ MethodNotAllowed

Spec == Init /\ [][Next]_vars

(* ------------------- handlers served by parallel threads -------------- *)
(* self.reviews is shared without a lock.  One GET is followed statement   *)
(* by statement while POST handlers of other threads append in between.    *)
(* A list comprehension and list.append each read or write the list in    *)
(* one step; a filtered list is local, so only its reads of the shared     *)
(* dicts matter.                                                           *)
ThreadLocations == {Missing, "Denver, Colorado"}
ThreadDates == {MissingDate, DateText(MaxDay)}

\* lines 95-108: bind filtered_reviews to the store or to a filtered copy
GetBind ==
    \E loc \in ThreadLocations, sd \in ThreadDates, ed \in ThreadDates :
        LET req == Request("GET", loc, sd, ed, Missing)
            location == params_get(loc)
            start_date == params_get_date(sd)
            end_date == params_get_date(ed)
            f0 == Indices(reviews)
            f1 == IF location # None THEN FilterLocation(reviews, f0, location) ELSE f0
            f2 == IF start_date # NoneDate
                  THEN FilterStart(reviews, f1, strptime_date(start_date)) ELSE f1
            f3 == IF end_date # NoneDate
                  THEN FilterEnd(reviews, f2, strptime_date(end_date)) ELSE f2
            same_list == IsStoreList(location, start_date, end_date)
        IN  /\ pc = "idle"
            /\ get_outcome(location, start_date, end_date) = "ok"
            /\ request' = req
            /\ before' = reviews
            /\ response' = Ok("pending", <<>>)
            /\ flt' = [same_list |-> same_list, idx |-> IF same_list THEN <<>> ELSE f3]
            /\ seen' = {reviews}
            /\ pc' = "bound"
            /\ UNCHANGED <<reviews, issued, loaded, accepted>>

\* the list filtered_reviews names now, as store indices
Filtered == IF flt.same_list THEN Indices(reviews) ELSE flt.idx

\* lines 110-111: the loop writing review["sentiment"]
GetScore ==
    /\ pc = "bound"
    /\ reviews' = Scored(reviews, Filtered)
    /\ seen' = seen \cup {reviews'}
    /\ pc' = "scored"
    /\ UNCHANGED <<issued, request, response, before, loaded, accepted, flt>>

\* line 113: sorts the store when filtered_reviews is the store; the sort
\* of a local list is seen by no one and is taken with line 115
GetSort ==
    /\ pc = "scored"
    /\ reviews' = IF flt.same_list THEN Sorted(reviews) ELSE reviews
    /\ seen' = seen \cup {reviews'}
    /\ pc' = "sorted"
    /\ UNCHANGED <<issued, request, response, before, loaded, accepted, flt>>

\* lines 115-120: json.dumps(filtered_reviews)
GetDump ==
    /\ pc = "sorted"
    /\ response' = Ok("200 OK",
                      IF flt.same_list THEN reviews
                      ELSE Sorted([k \in 1..Len(flt.idx) |-> reviews[flt.idx[k]]]))
    /\ pc' = "idle"
    /\ UNCHANGED <<reviews, issued, request, before, loaded, accepted, flt, seen>>

\* lines 142-150 in another thread: a valid submission is appended
ThreadPost ==
    \E review_body \in {NegBody, PosBody}, now \in Nows :
        LET rec == new_review(uuid4(issued), "Denver, Colorado", now, review_body)
        IN  /\ Len(accepted) < MaxPosts
            /\ post_error("Denver, Colorado", review_body) = ""
            /\ reviews' = Append(reviews, rec)
            /\ issued' = issued + 1
            /\ accepted' = Append(accepted, rec)
            /\ seen' = IF pc = "idle" THEN seen ELSE seen \cup {reviews'}
            /\ UNCHANGED <<request, response, before, loaded, pc, flt>>

NextThreads == GetBind \/ GetScore \/ GetSort \/ GetDump \/ ThreadPost

SpecThreads == Init /\ [][NextThreads]_vars

(* ============================== properties ============================ *)
IsGet == request.method = "GET"
IsPost == request.method = "POST"
Blankish == {Missing, ""}
NoDate == {MissingDate, BlankDate}
Unfiltered ==
    /\ IsGet
    /\ request.location \in Blankish
    /\ request.start_date \in NoDate
    /\ request.end_date \in NoDate
Replied(status) == response.status = status

\* a record without its derived sentiment
Strip(r) ==
    [ReviewId |-> r.ReviewId, Location |-> r.Location,
     Timestamp |-> r.Timestamp, ReviewBody |-> r.ReviewBody]
StripSeq(s) == [i \in 1..Len(s) |-> Strip(s[i])]
Ids(s) == {s[i].ReviewId : i \in 1..Len(s)}
PositionOf(s, id) == CHOOSE k \in 1..Len(s) : s[k].ReviewId = id

\* C1: a GET leaves the store exactly as it found it: same records, same
\* order, same fields, no sentiment written onto a stored record.
QueryHasNoSideEffects == IsGet => reviews = before

\* C2: the store is always the bulk-loaded records in their original order
\* followed by the accepted submissions in order of acceptance.
StoreInInsertionOrder == StripSeq(reviews) = StripSeq(loaded \o accepted)

\* C3: an unfiltered query returns every stored record exactly once, with
\* sentiment.compound non-increasing along the result; a positive review
\* submitted after a negative one comes before it.
UnfilteredQuerySortedDescending ==
    (Unfiltered /\ Replied("200 OK")) =>
        LET body == response.body
        IN  /\ Len(body) = Len(before)
            /\ \A i \in 1..Len(before) :
                 Cardinality({k \in 1..Len(body) : Strip(body[k]) = Strip(before[i])}) = 1
            /\ \A k \in 1..Len(body) : body[k].sentiment # NoKey
            /\ \A k \in 1..(Len(body) - 1) :
                 body[k].sentiment[1].compound >= body[k + 1].sentiment[1].compound
            /\ \A i, j \in 1..Len(accepted) :
                 (/\ i < j
                  /\ accepted[i].sentiment[1].compound < 0
                  /\ accepted[j].sentiment[1].compound > 0)
                 => PositionOf(body, accepted[j].ReviewId)
                      < PositionOf(body, accepted[i].ReviewId)

UnfilteredAfterNegThenPos ==
    /\ Unfiltered /\ Replied("200 OK")
    /\ Len(accepted) = 2
    /\ accepted[1].ReviewBody = NegBody
    /\ accepted[2].ReviewBody = PosBody
    /\ loaded # <<>>

\* C4: a successful submit adds exactly one record whose id no stored or
\* formerly stored record has; a repeated location/body is accepted again
\* and the two records differ in id.
SubmitAddsOneFreshRecord ==
    /\ Len(reviews) = Len(loaded) + Len(accepted)
    /\ \A i, j \in 1..Len(accepted) :
         i # j => accepted[i].ReviewId # accepted[j].ReviewId
    /\ Ids(accepted) \cap Ids(loaded) = {}
    /\ Replied("201 Created") =>
         /\ Len(reviews) = Len(before) + 1
         /\ StripSeq(SubSeq(reviews, 1, Len(before))) = StripSeq(before)
         /\ reviews[Len(reviews)] = response.body[1]
         /\ response.body[1].ReviewId \notin Ids(before)
    /\ (/\ IsPost
        /\ \E i \in 1..Len(accepted) :
             /\ accepted[i].Location = request.location
             /\ accepted[i].ReviewBody = request.ReviewBody)
       => Replied("201 Created")

TwoIdenticalSubmitsAccepted ==
    /\ IsPost /\ Replied("201 Created")
    /\ Len(accepted) = 2
    /\ accepted[1].Location = accepted[2].Location
    /\ accepted[1].ReviewBody = accepted[2].ReviewBody
    /\ Len(reviews) = Len(loaded) + 2

\* C5: a submit whose body or location is absent or empty is answered 400
\* MissingField and the store is unchanged.
MissingFieldRejected ==
    (IsPost /\ (request.location \in Blankish \/ request.ReviewBody \in Blankish)) =>
        /\ Replied("400 Bad Request")
        /\ response.error = "Location and ReviewBody are required"
        /\ reviews = before

EmptyBodyRejected ==
    /\ IsPost
    /\ request.location = "Denver, Colorado"
    /\ request.ReviewBody = ""
    /\ Replied("400 Bad Request")
    /\ Len(before) > 2

\* C6: with both fields non-empty, a location outside the allow-list is
\* answered InvalidLocation and the store is unchanged; when a field is
\* missing too, the answer is MissingField.
SubmitValidatesInOrder ==
    /\ (/\ IsPost
        /\ request.location \notin Blankish
        /\ request.ReviewBody \notin Blankish
        /\ request.location \notin allowed_locations)
       => /\ Replied("400 Bad Request")
          /\ response.error = "Invalid location"
          /\ reviews = before
    /\ (/\ IsPost
        /\ request.location \notin allowed_locations
        /\ (request.location \in Blankish \/ request.ReviewBody \in Blankish))
       => /\ Replied("400 Bad Request")
          /\ response.error = "Location and ReviewBody are required"

BadLocationAndNoBody ==
    /\ IsPost
    /\ request.location = "Atlantis"
    /\ request.ReviewBody = Missing
    /\ response.error = "Location and ReviewBody are required"
    /\ before # <<>>

\* C7: a query with a location outside the allow-list is answered
\* InvalidLocation with no records and an unchanged store, whatever the
\* date parameters are.
InvalidQueryLocationRejected ==
    (IsGet /\ request.location \notin Blankish
           /\ request.location \notin allowed_locations) =>
        /\ Replied("400 Bad Request")
        /\ response.error = "Invalid location"
        /\ response.body = <<>>
        /\ reviews = before

BadLocationWithMalformedDate ==
    /\ IsGet
    /\ request.location = "Atlantis"
    /\ request.start_date = JunkDate
    /\ Replied("400 Bad Request")
    /\ before # <<>>

\* C8: every record a submit returned is in every later unfiltered query
\* result with the id, location, body and timestamp of the submit response.
SubmittedRecordsReappear ==
    (Unfiltered /\ Replied("200 OK")) =>
        \A i \in 1..Len(accepted) :
            \E k \in 1..Len(response.body) :
                /\ response.body[k].ReviewId = accepted[i].ReviewId
                /\ response.body[k].Location = accepted[i].Location
                /\ response.body[k].ReviewBody = accepted[i].ReviewBody
                /\ response.body[k].Timestamp = accepted[i].Timestamp

UnfilteredAfterSubmitsAndReordering ==
    /\ Unfiltered /\ Replied("200 OK")
    /\ Len(accepted) = 2
    /\ StripSeq(before) # StripSeq(loaded \o accepted)

\* C9: a malformed start_date or end_date is answered with the typed client
\* error InvalidDateFormat, not an uncaught exception, and the store is
\* unchanged.
MalformedDateIsClientError ==
    (/\ IsGet
     /\ request.location \in Blankish \cup allowed_locations
     /\ (request.start_date = JunkDate \/ request.end_date = JunkDate))
    => /\ Replied("400 Bad Request")
       /\ reviews = before

\* C10: a successful query returns exactly the stored records that equal
\* the location filter, are stamped at or after midnight of start_date and
\* at or before midnight of end_date; a start_date after every record
\* gives an empty result.
FiltersConjunctiveAtMidnight ==
    (IsGet /\ Replied("200 OK")) =>
        LET Sat(r) ==
                /\ request.location \in Blankish \/ r.Location = request.location
                /\ request.start_date \in NoDate
                     \/ r.Timestamp.day >= request.start_date.day
                /\ request.end_date \in NoDate
                     \/ r.Timestamp.day < request.end_date.day
                     \/ (r.Timestamp.day = request.end_date.day /\ r.Timestamp.tod = 0)
            kept == {i \in 1..Len(before) : Sat(before[i])}
            body == response.body
        IN  /\ {Strip(body[k]) : k \in 1..Len(body)} = {Strip(before[i]) : i \in kept}
            /\ Len(body) = Cardinality(kept)
            /\ (/\ request.start_date \notin NoDate
                /\ \A i \in 1..Len(before) :
                     before[i].Timestamp.day < request.start_date.day)
               => body = <<>>

AllFiltersWithLateRecordOnEndDay ==
    /\ IsGet /\ Replied("200 OK")
    /\ request.location = "Denver, Colorado"
    /\ request.start_date = DateText(MaxDay)
    /\ request.end_date = DateText(MaxDay)
    /\ Len(response.body) = 1
    /\ \E i \in 1..Len(before) :
         /\ before[i].Location = "Denver, Colorado"
         /\ before[i].Timestamp = TimestampText(MaxDay, MaxTod)
    /\ \E i \in 1..Len(before) : before[i].Location # "Denver, Colorado"

\* C11: every stored record has a location of the allow-list and a
\* non-empty body, given that the bulk-loaded records have.
StoredRecordsValid ==
    (\A i \in 1..Len(loaded) :
        loaded[i].Location \in allowed_locations /\ loaded[i].ReviewBody \notin Blankish)
    => \A i \in 1..Len(reviews) :
        /\ reviews[i].Location \in allowed_locations
        /\ reviews[i].ReviewBody \notin Blankish
        /\ reviews[i].ReviewBody # None

RejectedAfterAccepted ==
    /\ IsPost /\ Replied("400 Bad Request")
    /\ request.location = "Atlantis"
    /\ request.ReviewBody = PosBody
    /\ Len(accepted) >= 1
    /\ Len(reviews) = Len(loaded) + Len(accepted)

\* C13: every record of a query result or submit response carries the
\* scorer's output for its body, and so does every stored record that
\* holds a sentiment.
SentimentNeverStale ==
    /\ (Replied("200 OK") \/ Replied("201 Created")) =>
         \A k \in 1..Len(response.body) :
            response.body[k].sentiment
                = <<[compound |-> polarity_compound(response.body[k].ReviewBody)]>>
    /\ \A i \in 1..Len(reviews) :
         \/ reviews[i].sentiment = NoKey
         \/ reviews[i].sentiment
                = <<[compound |-> polarity_compound(reviews[i].ReviewBody)]>>

QueryReturnsBulkAndSubmitted ==
    /\ IsGet /\ Replied("200 OK")
    /\ Len(response.body) >= 3
    /\ \E i \in 1..Len(reviews) :
         reviews[i].ReviewId \in Ids(loaded) /\ reviews[i].sentiment # NoKey
    /\ \E i \in 1..Len(reviews) : reviews[i].ReviewId \in Ids(accepted)

\* C14: a method other than GET or POST is answered 405 and leaves the
\* store unchanged.
OtherMethodNotAllowed ==
    request.method \notin {"GET", "POST", "none"} =>
        /\ Replied("405 Method Not Allowed")
        /\ response.body = <<>>
        /\ reviews = before

PutAnswered405 ==
    /\ request.method = "PUT"
    /\ Replied("405 Method Not Allowed")
    /\ Len(before) > 2

\* C15: a query's result depends only on the bulk load and the accepted
\* submits, not on the GET requests answered before: it is the filter of
\* the insertion-ordered records, by descending compound, records of equal
\* compound in insertion order.
InInsertionOrder == loaded \o accepted
Satisfies(r) ==
    /\ request.location \in Blankish \/ r.Location = request.location
    /\ request.start_date \in NoDate \/ r.Timestamp.day >= request.start_date.day
    /\ request.end_date \in NoDate
         \/ r.Timestamp.day < request.end_date.day
         \/ (r.Timestamp.day = request.end_date.day /\ r.Timestamp.tod = 0)
\* is a before b in the result the history alone determines
RanksBefore(a, b) ==
    LET ca == polarity_compound(a.ReviewBody)
        cb == polarity_compound(b.ReviewBody)
    IN  \/ ca > cb
        \/ /\ ca = cb
           /\ PositionOf(InInsertionOrder, a.ReviewId)
                < PositionOf(InInsertionOrder, b.ReviewId)

QueryResultIndependentOfEarlierQueries ==
    (IsGet /\ Replied("200 OK")) =>
        LET body == response.body
        IN  /\ {Strip(body[k]) : k \in 1..Len(body)}
                 = {Strip(InInsertionOrder[i]) :
                      i \in {j \in 1..Len(InInsertionOrder) : Satisfies(InInsertionOrder[j])}}
            /\ \A k, l \in 1..Len(body) : k < l => RanksBefore(body[k], body[l])

TiesAfterStoreWasReordered ==
    /\ IsGet /\ Replied("200 OK")
    /\ StripSeq(before) # StripSeq(InInsertionOrder)
    /\ \E k, l \in 1..Len(response.body) :
         /\ k < l
         /\ response.body[k].sentiment = response.body[l].sentiment
    /\ ~Unfiltered

\* C16: a GET with a filter leaves the membership and order of the store
\* as they were; only a GET without any filter sorts the store itself, and
\* then the store is the sorted list it returned.
OnlyUnfilteredGetSortsStore ==
    /\ (IsGet /\ ~Unfiltered) => StripSeq(reviews) = StripSeq(before)
    /\ (Unfiltered /\ Replied("200 OK")) => reviews = response.body

FilteredGetSortedFreshList ==
    /\ IsGet /\ Replied("200 OK")
    /\ request.location \in Blankish
    /\ request.start_date = DateText(MaxDay)
    /\ Len(response.body) = 2
    /\ response.body[1].sentiment # response.body[2].sentiment
    /\ PositionOf(before, response.body[1].ReviewId)
         > PositionOf(before, response.body[2].ReviewId)

\* the result handle_get gives for the request on store contents rs
QueryOn(rs) ==
    LET location == params_get(request.location)
        start_date == params_get_date(request.start_date)
        end_date == params_get_date(request.end_date)
        f0 == Indices(rs)
        f1 == IF location # None THEN FilterLocation(rs, f0, location) ELSE f0
        f2 == IF start_date # NoneDate
              THEN FilterStart(rs, f1, strptime_date(start_date)) ELSE f1
        f3 == IF end_date # NoneDate
              THEN FilterEnd(rs, f2, strptime_date(end_date)) ELSE f2
        scored == Scored(rs, f3)
    IN  Sorted([k \in 1..Len(f3) |-> scored[f3[k]]])

\* C12: with handlers interleaved, a query's result is the result of that
\* query on the store contents of one instant during the query, no record
\* is seen half-written, and every accepted submit leaves one complete
\* record.
InterleavedQueryIsSnapshot ==
    /\ (pc = "idle" /\ IsGet /\ Replied("200 OK")) =>
         \E rs \in seen : StripSeq(response.body) = StripSeq(QueryOn(rs))
    /\ Len(reviews) = Len(loaded) + Len(accepted)
    /\ Ids(reviews) = Ids(loaded) \cup Ids(accepted)
    /\ \A i \in 1..Len(reviews) : reviews[i].ReviewId \in Ids(accepted) =>
         reviews[i].sentiment # NoKey

====
